---- MODULE Spec2Model ----
(***************************************************************************)
(* Model of the gametime crate: the rational Frequency, the                *)
(* FrequencyTicker with its tick iterator, the variable-rate ClockRate,    *)
(* the range checks of TimeStamp and the GlobalClock.  A time span is a    *)
(* nanosecond count; a TimeStamp is modelled by its internal NonZeroU64    *)
(* field, so TimeStamp::start() is 1.  The arithmetic of the tickers and   *)
(* the clocks is kept inside the bounds below, far from the u64 range, so  *)
(* none of it overflows; the range checks of TimeStamp are modelled with   *)
(* i64 scaled down to I64_MIN..I64_MAX.                                    *)
(***************************************************************************)
EXTENDS Integers, Sequences, FiniteSets, TLC

VARIABLES
    ticker,     \* FrequencyTicker { freq, until_next, now }
    iter,       \* the FrequencyTickerIter of the last call, if that was ticks()
    emitted,    \* the ClockSteps the current iterator has yielded so far
    exhausted,  \* the current iterator has returned None
    call,       \* the last call made on the ticker and its result
    hist,       \* how the ticker was created and the ticks its calls reported
    clock,      \* ClockRate { now, nom, denom, until_next }
    rcall,      \* the last ClockRate call and the ClockStep it returned
    rhist,      \* the spans fed to the ClockRate and the steps it returned
    fin,        \* the arguments of the last Frequency::new call
    fout,       \* the Frequency it returned
    build,      \* whether the build has debug assertions
    stamp,      \* a TimeStamp, as its internal NonZeroU64
    scall,      \* the last TimeStamp call and what it returned
    instant,    \* Instant::now(), in nanoseconds since the global reference
    gclock,     \* GlobalClock { now }
    gcall,      \* the last GlobalClock call and the ClockStep it returned
    monotonic,  \* Instant::now(), the monotonic clock of the process
    cell,       \* GLOBAL_REFERENCE, the OnceLock<Instant>
    threads,    \* per thread: where it is in reference_and_elapsed()
    written,    \* how many times GLOBAL_REFERENCE was written
    tspan,      \* the last TimeSpan operation and its result
    text        \* the string the last to_string() produced

vars == <<ticker, iter, emitted, exhausted, call, hist,
          clock, rcall, rhist, fin, fout,
          build, stamp, scall, instant, gclock, gcall,
          monotonic, cell, threads, written, tspan, text>>

tickerVars == <<ticker, iter, emitted, exhausted, call, hist>>
rateVars == <<clock, rcall, rhist>>
freqVars == <<fin, fout>>
stampVars == <<build, stamp, scall>>
clockVars == <<instant, gclock, gcall>>
refVars == <<monotonic, cell, threads, written>>
spanVars == <<tspan, text>>

(***************************************************************************)
(* Bounds of the model.                                                    *)
(***************************************************************************)
MaxCount == 3       \* largest Frequency.count
MaxCycle == 3       \* largest Frequency.cycle, in nanoseconds
MaxDelay == 1       \* largest delay of with_delay, in periods
MaxStep == 3        \* longest span fed to the ticker in one call
MaxNow == 6         \* the ticker is advanced up to this many nanoseconds
MaxStart == 1       \* tickers start at time stamps 1..MaxStart
MaxNom == 3         \* largest rate numerator of the ClockRate
MaxDenom == 3       \* largest rate denominator of the ClockRate
MaxSpan == 3        \* longest span fed to the ClockRate in one step
MaxFed == 6         \* the ClockRate is fed up to this many nanoseconds
MaxSetNow == 2      \* set_now is given the time stamps 1..MaxSetNow
MaxArg == 12        \* largest argument of the Frequency constructors
I64_MAX == 15       \* i64::MAX, scaled down, of the TimeStamp range checks
MaxInstant == 8     \* the monotonic clock runs this far past the reference
MaxCalls == 3       \* GlobalClock::step is called up to this many times
U64_MAX == 15       \* u64::MAX of ftor, scaled to four bits
U32_MAX == 3        \* u32::MAX of ftor, scaled to two bits
MaxMonotonic == 3   \* the monotonic clock of the process runs from 0 to this

None == <<>>
Some(x) == <<x>>

(***************************************************************************)
(* lib.rs                                                                  *)
(***************************************************************************)
RECURSIVE gcd(_, _)
gcd(a, b) == IF b = 0 THEN a ELSE gcd(b, a % b)

div_ceil(a, b) == (a + b - 1) \div b

(***************************************************************************)
(* stamp.rs                                                                *)
(***************************************************************************)
TimeStamp_start == 1

TimeStamp_nanos(ts) == ts - 1

TimeStamp_from_elapsed_unchecked(nanos) == nanos + 1

\* ts + span (impl Add), for the time stamps of the clocks and tickers below:
\* they stay far from never(), where add_span returns Some and expect() passes.
TimeStamp_add(ts, span) ==
    TimeStamp_from_elapsed_unchecked(TimeStamp_nanos(ts) + span)

TimeStamp_elapsed_since(ts, earlier) ==
    TimeStamp_nanos(ts) - TimeStamp_nanos(earlier)

\* The range checks of the constructors, with i64 scaled down to the range
\* I64_MIN..I64_MAX.
I64_MIN == -I64_MAX - 1

i64_checked_add(a, b) ==
    IF a + b > I64_MAX \/ a + b < I64_MIN THEN None ELSE Some(a + b)

i64_checked_sub(a, b) ==
    IF a - b > I64_MAX \/ a - b < I64_MIN THEN None ELSE Some(a - b)

TimeStamp_never == I64_MAX

TimeStamp_from_elapsed(nanos) ==
    IF nanos > I64_MAX - 1 THEN None ELSE Some(nanos + 1)

TimeStamp_from_duration(duration) ==
    IF duration > I64_MAX - 1
    THEN None
    ELSE Some(TimeStamp_from_elapsed_unchecked(duration))

\* add_span as a build without debug assertions computes it.
TimeStamp_add_span(ts, span) ==
    LET nanos == i64_checked_add(TimeStamp_nanos(ts), span)
    IN  IF nanos = None THEN None
        ELSE IF nanos[1] < 0 THEN None
        ELSE Some(TimeStamp_from_elapsed_unchecked(nanos[1]))

TimeStamp_sub_span(ts, span) ==
    LET nanos == i64_checked_sub(TimeStamp_nanos(ts), span)
    IN  IF nanos = None THEN None
        ELSE IF nanos[1] < 0 THEN None
        ELSE Some(TimeStamp_from_elapsed_unchecked(nanos[1]))

\* The debug assertions: of from_elapsed_unchecked (line 85) and of nanos()
\* (lines 95-98).  A build with debug assertions panics where one fails.
debug_assert_from_elapsed_unchecked(nanos) == nanos < I64_MAX - 1

debug_assert_nanos(ts) == ts <= I64_MAX

\* TimeStamp::now(): the time elapsed since the global reference.
TimeStamp_now(elapsed) == TimeStamp_from_duration(elapsed)[1]

(***************************************************************************)
(* freq.rs: Frequency                                                      *)
(***************************************************************************)
\* Variant: only the count is divided by the common factor.
Frequency_new_count_only(count, cycle) ==
    [count |-> count \div gcd(count, cycle), cycle |-> cycle]

Frequency_new(count, cycle) ==
    LET g == gcd(count, cycle)
    IN  [count |-> count \div g, cycle |-> cycle \div g]

Frequency_elements(f, span) == span * f.count

Frequency_period_elements(f) == f.cycle

\* Variant: the periods are measured in ticks, not in elements.
Frequency_periods_elements_counted(f, n) == f.count * n

Frequency_periods_elements(f, n) == f.cycle * n

Frequency_periods_in_elements(f, span) ==
    [periods |-> span \div f.cycle, remaining |-> span % f.cycle]

\* Variant: the wait is taken modulo the cycle.
Frequency_until_next_wrapped(f, span) == (f.cycle - (span % f.cycle)) % f.cycle

\* Variant: the remainder of the span is forgotten.
Frequency_until_next_reset(f, span) == f.cycle

Frequency_until_next(f, span) == f.cycle - (span % f.cycle)

\* Variant: rounds down, as the span contained within the elements.
Frequency_span_fits_in_elements(f, span) ==
    CASE span = 0 /\ f.count = 0 -> Some(0)
      [] span # 0 /\ f.count = 0 -> None
      [] OTHER -> Some(span \div f.count)

Frequency_span_fitting_elements(f, span) ==
    CASE span = 0 /\ f.count = 0 -> Some(0)
      [] span # 0 /\ f.count = 0 -> None
      [] OTHER -> Some(div_ceil(span, f.count))

(***************************************************************************)
(* freq.rs: FrequencyTicker and FrequencyTickerIter                        *)
(***************************************************************************)
\* Variant: the period every ticker waits for its first tick is left out.
FrequencyTicker_with_delay_only(freq, periods, now) ==
    [freq |-> freq,
     until_next |-> Frequency_periods_elements(freq, periods),
     now |-> now]

FrequencyTicker_with_delay(freq, periods, now) ==
    [freq |-> freq,
     until_next |-> Frequency_periods_elements(freq, 1 + periods),
     now |-> now]

FrequencyTicker_new(freq, now) == FrequencyTicker_with_delay(freq, 0, now)

\* Variant: the wait until the next tick is rounded down.
FrequencyTicker_next_tick_floor(t) ==
    IF t.freq.count = 0
    THEN None
    ELSE Some(TimeStamp_add(t.now, t.until_next \div t.freq.count))

FrequencyTicker_next_tick(t) ==
    LET s == Frequency_span_fitting_elements(t.freq, t.until_next)
    IN  IF s = None THEN None ELSE Some(TimeStamp_add(t.now, s[1]))

\* Variant: the ticker is left for the iterator to advance.
FrequencyTicker_advance_lazy(t, step) == t

\* Variant: a span that fires no tick is not taken off until_next.
FrequencyTicker_advance_keep(t, step) ==
    LET span == t.freq.count * step
    IN  [t EXCEPT
            !.until_next =
                IF span >= t.until_next
                THEN t.freq.cycle - ((span - t.until_next) % t.freq.cycle)
                ELSE t.until_next,
            !.now = TimeStamp_add(t.now, step)]

\* Variant: now is advanced only when a tick fires.
FrequencyTicker_advance_stale(t, step) ==
    LET span == t.freq.count * step
    IN  [t EXCEPT
            !.until_next =
                IF span >= t.until_next
                THEN t.freq.cycle - ((span - t.until_next) % t.freq.cycle)
                ELSE t.until_next - span,
            !.now = IF span >= t.until_next
                    THEN TimeStamp_add(t.now, step)
                    ELSE t.now]

\* The ticker after ticks(step): lines 329-335.
FrequencyTicker_advance(t, step) ==
    LET span == Frequency_elements(t.freq, step)
    IN  [t EXCEPT
            !.until_next =
                IF span >= t.until_next
                THEN Frequency_until_next(t.freq, span - t.until_next)
                ELSE t.until_next - span,
            !.now = TimeStamp_add(t.now, step)]

\* ticks(step): the iterator it returns and the ticker it leaves.
FrequencyTicker_ticks(t, step) ==
    [iter |-> [span |-> Frequency_elements(t.freq, step),
               freq |-> t.freq,
               until_next |-> t.until_next,
               accumulated |-> 0,
               now |-> t.now],
     ticker |-> FrequencyTicker_advance(t, step)]

\* Variant: the periods in the span, whatever the wait until the next tick.
FrequencyTickerIter_ticks_periods(it) == it.span \div it.freq.cycle

\* FrequencyTickerIter::ticks, the closed form.
FrequencyTickerIter_ticks(it) ==
    IF it.span < it.until_next
    THEN 0
    ELSE 1 + Frequency_periods_in_elements(it.freq, it.span - it.until_next).periods

\* tick_count(step): the count it returns and the ticker it leaves.
FrequencyTicker_tick_count(t, step) ==
    LET r == FrequencyTicker_ticks(t, step)
    IN  [count |-> FrequencyTickerIter_ticks(r.iter), ticker |-> r.ticker]

\* Variant: the ticks that fall into the nanosecond of the tick returned are
\* not counted.
FrequencyTickerIter_next_merged(it) ==
    IF it.accumulated > 0
    THEN [item |-> Some([now |-> it.now, step |-> 0]),
          iter |-> [it EXCEPT !.accumulated = it.accumulated - 1]]
    ELSE IF it.span < it.until_next
    THEN [item |-> None, iter |-> it]
    ELSE LET fit == Frequency_span_fitting_elements(it.freq, it.until_next)
             next == IF fit = None THEN 0 ELSE fit[1]
             advance == Frequency_elements(it.freq, next)
             pr == Frequency_periods_in_elements(it.freq, advance - it.until_next)
             now == TimeStamp_add(it.now, next)
         IN  [item |-> Some([now |-> now, step |-> next]),
              iter |-> [span |-> it.span - advance,
                        freq |-> it.freq,
                        until_next |-> Frequency_period_elements(it.freq) - pr.remaining,
                        accumulated |-> 0,
                        now |-> now]]

\* Variant: the iterator's now is not moved to the tick returned.
FrequencyTickerIter_next_unmoved(it) ==
    IF it.accumulated > 0
    THEN [item |-> Some([now |-> it.now, step |-> 0]),
          iter |-> [it EXCEPT !.accumulated = it.accumulated - 1]]
    ELSE IF it.span < it.until_next
    THEN [item |-> None, iter |-> it]
    ELSE LET fit == Frequency_span_fitting_elements(it.freq, it.until_next)
             next == IF fit = None THEN 0 ELSE fit[1]
             advance == Frequency_elements(it.freq, next)
             pr == Frequency_periods_in_elements(it.freq, advance - it.until_next)
         IN  [item |-> Some([now |-> it.now, step |-> next]),
              iter |-> [span |-> it.span - advance,
                        freq |-> it.freq,
                        until_next |-> Frequency_period_elements(it.freq) - pr.remaining,
                        accumulated |-> pr.periods,
                        now |-> it.now]]

\* FrequencyTickerIter::next: the item it returns and the iterator it leaves.
FrequencyTickerIter_next(it) ==
    IF it.accumulated > 0
    THEN [item |-> Some([now |-> it.now, step |-> 0]),
          iter |-> [it EXCEPT !.accumulated = it.accumulated - 1]]
    ELSE IF it.span < it.until_next
    THEN [item |-> None, iter |-> it]
    ELSE LET fit == Frequency_span_fitting_elements(it.freq, it.until_next)
             next == IF fit = None THEN 0 ELSE fit[1]
             advance == Frequency_elements(it.freq, next)
             pr == Frequency_periods_in_elements(it.freq, advance - it.until_next)
             now == TimeStamp_add(it.now, next)
         IN  [item |-> Some([now |-> now, step |-> next]),
              iter |-> [span |-> it.span - advance,
                        freq |-> it.freq,
                        until_next |-> Frequency_period_elements(it.freq) - pr.remaining,
                        accumulated |-> pr.periods,
                        now |-> now]]

\* Variant: clip_period is ignored.
FrequencyTicker_set_frequency_unclipped(t, freq, clip_period) ==
    [t EXCEPT !.freq = freq]

FrequencyTicker_set_frequency(t, freq, clip_period) ==
    LET period == Frequency_period_elements(freq)
    IN  [t EXCEPT
            !.freq = freq,
            !.until_next =
                IF clip_period /\ t.until_next > period THEN period ELSE t.until_next]

(***************************************************************************)
(* span.rs: the cycles of from_hz, from_khz, from_mhz and from_ghz         *)
(***************************************************************************)
NonZeroTimeSpan_SECOND == 1000000000
NonZeroTimeSpan_MILLISECOND == 1000000
NonZeroTimeSpan_MICROSECOND == 1000
NonZeroTimeSpan_NANOSECOND == 1

\* try_new: None for a zero cycle.
Frequency_try_new(count, cycle) ==
    IF cycle = 0 THEN None ELSE Some(Frequency_new(count, cycle))

Frequency_from_hz(value) == Frequency_new(value, NonZeroTimeSpan_SECOND)
Frequency_from_khz(value) == Frequency_new(value, NonZeroTimeSpan_MILLISECOND)
Frequency_from_mhz(value) == Frequency_new(value, NonZeroTimeSpan_MICROSECOND)
Frequency_from_ghz(value) == Frequency_new(value, NonZeroTimeSpan_NANOSECOND)

(***************************************************************************)
(* rate.rs: ClockRate                                                      *)
(***************************************************************************)
\* rate.rs and stamp.rs are written for a TimeSpan that holds a signed count:
\* step asks span.is_negative(), add_span adds span.as_nanos() to an i64.
TimeSpan_is_negative(span) == span < 0

ClockRate_new == [now |-> TimeStamp_start, nom |-> 1, denom |-> 1, until_next |-> 0]

ClockRate_reset(c) == [c EXCEPT !.now = TimeStamp_start, !.until_next = 0]

ClockRate_set_now(c, now) == [c EXCEPT !.now = now]

(***************************************************************************)
(* An f32 is NaN, an infinity, or a finite value written as the exact      *)
(* fraction num / den.  The finite rates of the model are whole numbers    *)
(* and halves, on which the f32 arithmetic of ftor is exact.               *)
(***************************************************************************)
Float(kind, num, den) == [kind |-> kind, num |-> num, den |-> den]

f32_NAN == Float("nan", 0, 1)
f32_INFINITY == Float("inf", 1, 1)
f32_NEG_INFINITY == Float("neg_inf", -1, 1)
Finite(num, den) == Float("finite", num, den)

\* value.max(0.0): f32::max returns the other operand when one is NaN.
f32_max_zero(value) ==
    IF value.kind \in {"nan", "neg_inf"} \/ (value.kind = "finite" /\ value.num < 0)
    THEN Finite(0, 1)
    ELSE value

MAX_ITER == 50

\* const EPSILON: f32 = 1e-6, as the denominator of the fraction 1 / 1000000.
EPSILON_DENOM == 1000000

RECURSIVE ftor_loop(_, _, _, _)
\* The for loop of ftor with that many rounds left: the nom and denom it ends with.
ftor_loop(value, denom, nom, rounds) ==
    LET f == Finite(nom.num % nom.den, nom.den)
        ceiled == div_ceil(denom * f.den, f.num)
        next == Finite(value.num * ceiled, value.den)
    IN  IF rounds = 0 THEN [nom |-> nom, denom |-> denom]
        ELSE IF f.num * EPSILON_DENOM < f.den THEN [nom |-> nom, denom |-> denom]
        ELSE IF denom > U32_MAX THEN [nom |-> nom, denom |-> denom]
        ELSE IF next.num > U64_MAX * next.den THEN [nom |-> nom, denom |-> ceiled]
        ELSE ftor_loop(value, ceiled, next, rounds - 1)

\* ftor(value): the pair (nom, denom).
ftor(v) ==
    LET value == f32_max_zero(v)
    IN  IF value.kind = "inf" THEN <<1, 0>>
        ELSE IF value.num > U64_MAX * value.den THEN <<U64_MAX, 1>>
        ELSE LET r == ftor_loop(value, 1, value, MAX_ITER)
                 nom == r.nom.num \div r.nom.den
                 g == gcd(nom, r.denom)
             IN  <<nom \div g, r.denom \div g>>

\* rate2ratio(rate): None stands for the panic of NonZeroU64::new(d).unwrap().
rate2ratio(rate) ==
    LET r == ftor(rate)
    IN  IF r[2] = 0 THEN None ELSE Some(r)

\* set_rate(rate): whether it panicked and the clock it leaves.
ClockRate_set_rate(c, rate) ==
    LET r == rate2ratio(rate)
    IN  IF r = None
        THEN [panicked |-> TRUE, clock |-> c]
        ELSE [panicked |-> FALSE,
              clock |-> [c EXCEPT !.nom = r[1][1], !.denom = r[1][2]]]

ClockRate_set_rate_ratio(c, nom, denom) == [c EXCEPT !.nom = nom, !.denom = denom]

ClockRate_pause(c) == [c EXCEPT !.nom = 0]

\* Variant: the span is not scaled by the numerator once the carried wait is
\* used up.
ClockRate_step_unscaled(c, span) ==
    LET nanos == span
        nom_nanos == nanos * c.nom
    IN  IF TimeSpan_is_negative(span)
        THEN [panicked |-> TRUE, clock |-> c, step |-> None]
        ELSE IF c.until_next > nom_nanos
        THEN [panicked |-> FALSE,
              clock |-> [c EXCEPT !.until_next = c.until_next - nom_nanos],
              step |-> [now |-> c.now, step |-> 0]]
        ELSE LET clock_nanos == nanos \div c.denom
                 nom_nanos_left == nanos % c.denom
                 now == TimeStamp_add(c.now, clock_nanos)
             IN  [panicked |-> FALSE,
                  clock |-> [c EXCEPT !.until_next = c.denom - nom_nanos_left,
                                      !.now = now],
                  step |-> [now |-> now, step |-> clock_nanos]]

\* Variant: the span is not checked, and the arithmetic is done on the signed
\* count.
ClockRate_step_unchecked(c, span) ==
    LET nanos == span
        nom_nanos == nanos * c.nom
    IN  IF c.until_next > nom_nanos
        THEN [panicked |-> FALSE,
              clock |-> [c EXCEPT !.until_next = c.until_next - nom_nanos],
              step |-> [now |-> c.now, step |-> 0]]
        ELSE LET clock_nanos == (nom_nanos - c.until_next) \div c.denom
                 nom_nanos_left == (nom_nanos - c.until_next) % c.denom
                 now == TimeStamp_add(c.now, clock_nanos)
             IN  [panicked |-> FALSE,
                  clock |-> [c EXCEPT !.until_next = c.denom - nom_nanos_left,
                                      !.now = now],
                  step |-> [now |-> now, step |-> clock_nanos]]

\* step(span): whether the assertion of line 122 fails, the ClockStep the call
\* returns otherwise, and the clock it leaves.
ClockRate_step(c, span) ==
    LET nanos == span
        nom_nanos == nanos * c.nom
    IN  IF TimeSpan_is_negative(span)
        THEN [panicked |-> TRUE, clock |-> c, step |-> None]
        ELSE IF c.until_next > nom_nanos
        THEN [panicked |-> FALSE,
              clock |-> [c EXCEPT !.until_next = c.until_next - nom_nanos],
              step |-> [now |-> c.now, step |-> 0]]
        ELSE LET clock_nanos == (nom_nanos - c.until_next) \div c.denom
                 nom_nanos_left == (nom_nanos - c.until_next) % c.denom
                 now == TimeStamp_add(c.now, clock_nanos)
             IN  [panicked |-> FALSE,
                  clock |-> [c EXCEPT !.until_next = c.denom - nom_nanos_left,
                                      !.now = now],
                  step |-> [now |-> now, step |-> clock_nanos]]

\* Variant: the count is not divided by the factor taken out of the
\* denominator.
ClockRate_ticker_uncancelled(c, freq) ==
    LET gcd1 == gcd(c.nom, freq.cycle)
        gcd2 == gcd(freq.count, c.denom)
        nom == c.nom \div gcd1
        denom == c.denom \div gcd2
        period == freq.cycle \div gcd1
        count == nom * freq.count
    IN  FrequencyTicker_new([count |-> count, cycle |-> denom * period], c.now)

\* ticker(freq): the ticker it returns; the clock is borrowed immutably.
ClockRate_ticker(c, freq) ==
    LET gcd1 == gcd(c.nom, freq.cycle)
        gcd2 == gcd(freq.count, c.denom)
        nom == c.nom \div gcd1
        denom == c.denom \div gcd2
        count0 == freq.count \div gcd2
        period == freq.cycle \div gcd1
        count == nom * count0
    IN  FrequencyTicker_new([count |-> count, cycle |-> denom * period], c.now)

(***************************************************************************)
(* span.rs: TimeSpan as its u64 nanosecond count.  The count of a year     *)
(* does not fit the integers of the checker, so a span is written here as  *)
(* whole seconds and the nanoseconds below a second:                       *)
(*     nanos(span) = span.secs * 1_000_000_000 + span.nanos.               *)
(***************************************************************************)
NANOS_PER_SECOND == 1000000000

Wide(secs, nanos) == [secs |-> secs, nanos |-> nanos]

TimeSpan_ZERO == Wide(0, 0)
TimeSpan_NANOSECOND == Wide(0, 1)
TimeSpan_MICROSECOND == Wide(0, 1000)
TimeSpan_MILLISECOND == Wide(0, 1000000)
TimeSpan_SECOND == Wide(1, 0)
TimeSpan_MINUTE == Wide(60, 0)
TimeSpan_HOUR == Wide(3600, 0)
TimeSpan_DAY == Wide(86400, 0)
TimeSpan_JULIAN_YEAR == Wide(31557600, 0)
TimeSpan_GREGORIAN_YEAR == Wide(31556, 952000000)
TimeSpan_SOLAR_YEAR == Wide(31556925, 216000000)
NonZeroTimeSpan_GREGORIAN_YEAR == Wide(31556, 952000000)

\* #[derive(PartialOrd, Ord)] on the nanosecond count.
TimeSpan_lt(a, b) == a.secs < b.secs \/ (a.secs = b.secs /\ a.nanos < b.nanos)
TimeSpan_ge(a, b) == ~TimeSpan_lt(a, b)

\* u64::checked_sub on the nanosecond counts: None when b is the larger one.
TimeSpan_checked_sub(a, b) ==
    IF TimeSpan_lt(a, b) THEN None
    ELSE IF a.nanos >= b.nanos
         THEN Some(Wide(a.secs - b.secs, a.nanos - b.nanos))
         ELSE Some(Wide(a.secs - b.secs - 1, a.nanos + NANOS_PER_SECOND - b.nanos))

\* NonZeroTimeSpan::checked_sub(self, span: TimeSpan).
NonZeroTimeSpan_checked_sub(self, span) == TimeSpan_checked_sub(self, span)

\* impl Sub<TimeSpan> for TimeSpan: None stands for the panic of expect().
TimeSpan_sub(self, rhs) == TimeSpan_checked_sub(self, rhs)

\* impl Sub<NonZeroTimeSpan> for TimeSpan: the receiver of checked_sub is rhs.
TimeSpan_sub_nonzero(self, rhs) == NonZeroTimeSpan_checked_sub(rhs, self)

\* span / unit as u64, for a unit of whole seconds or one that divides a second.
TimeSpan_div(span, unit) ==
    IF unit.nanos = 0
    THEN span.secs \div unit.secs
    ELSE span.secs * (NANOS_PER_SECOND \div unit.nanos) + span.nanos \div unit.nanos

\* span % unit, for the same units.
TimeSpan_rem(span, unit) ==
    IF unit.nanos = 0
    THEN Wide(span.secs % unit.secs, span.nanos)
    ELSE Wide(0, span.nanos % unit.nanos)

\* u64 * TimeSpan, for a unit of whole seconds or one that divides a second.
TimeSpan_mul(k, unit) ==
    IF unit.nanos = 0
    THEN Wide(k * unit.secs, 0)
    ELSE LET per == NANOS_PER_SECOND \div unit.nanos
         IN  Wide(k \div per, (k % per) * unit.nanos)

\* TimeSpan + TimeSpan.
TimeSpan_add(a, b) ==
    Wide(a.secs + b.secs + (a.nanos + b.nanos) \div NANOS_PER_SECOND,
         (a.nanos + b.nanos) % NANOS_PER_SECOND)

(***************************************************************************)
(* Strings are sequences of one-character strings.  A position is counted  *)
(* from 0 as in the source; s[from..to] is Slice(s, from, to).             *)
(***************************************************************************)
DigitChars == <<"0", "1", "2", "3", "4", "5", "6", "7", "8", "9">>

is_ascii_digit(c) == \E d \in 1..10 : DigitChars[d] = c

\* The space is the only whitespace character of the strings modelled.
is_ascii_whitespace(c) == c = " "

DigitValue(c) == (CHOOSE d \in 1..10 : DigitChars[d] = c) - 1

Slice(s, from, to) == SubSeq(s, from + 1, to)

RECURSIVE Decimal(_)
\* "{}" of an unsigned integer.
Decimal(n) ==
    IF n < 10 THEN <<DigitChars[n + 1]>>
    ELSE Append(Decimal(n \div 10), DigitChars[(n % 10) + 1])

RECURSIVE Padded(_, _)
\* "{:0width}" of an unsigned integer, given its digits.
Padded(digits, width) ==
    IF Len(digits) >= width THEN digits ELSE Padded(<<"0">> \o digits, width)

RECURSIVE trim(_)
\* str::trim.
trim(s) ==
    IF s = <<>> THEN s
    ELSE IF is_ascii_whitespace(s[1]) THEN trim(Tail(s))
    ELSE IF is_ascii_whitespace(s[Len(s)]) THEN trim(SubSeq(s, 1, Len(s) - 1))
    ELSE s

RECURSIVE DigitsValue(_)
DigitsValue(s) ==
    IF s = <<>> THEN 0
    ELSE 10 * DigitsValue(SubSeq(s, 1, Len(s) - 1)) + DigitValue(s[Len(s)])

\* str::parse::<u64> of digits: the empty string and any other character are
\* errors.
parse_u64(s) ==
    IF s = <<>> \/ \E i \in 1..Len(s) : ~is_ascii_digit(s[i])
    THEN [ok |-> FALSE, value |-> 0]
    ELSE [ok |-> TRUE, value |-> DigitsValue(s)]

RECURSIVE Pow10(_)
Pow10(k) == IF k = 0 THEN 1 ELSE 10 * Pow10(k - 1)

\* TimeSpan::fmt, what Display writes without the alternate flag.
TimeSpan_fmt(self) ==
    IF self = TimeSpan_ZERO THEN <<"0">>
    ELSE IF TimeSpan_ge(self, TimeSpan_DAY) THEN
        LET days == TimeSpan_div(self, TimeSpan_DAY)
            span1 == TimeSpan_rem(self, TimeSpan_DAY)
            hours == TimeSpan_div(span1, TimeSpan_HOUR)
            span2 == TimeSpan_rem(span1, TimeSpan_HOUR)
            minutes == TimeSpan_div(span2, TimeSpan_MINUTE)
            span3 == TimeSpan_rem(span2, TimeSpan_MINUTE)
            seconds == TimeSpan_div(span3, TimeSpan_SECOND)
            span4 == TimeSpan_rem(span3, TimeSpan_SECOND)
            millis == TimeSpan_div(span4, TimeSpan_MILLISECOND)
            dhm == Decimal(days) \o <<"d">> \o Padded(Decimal(hours), 2)
                     \o <<":">> \o Padded(Decimal(minutes), 2)
        IN  IF millis > 0
            THEN dhm \o <<":">> \o Padded(Decimal(seconds), 2)
                     \o <<".">> \o Padded(Decimal(millis), 3)
            ELSE IF seconds > 0
            THEN dhm \o <<":">> \o Padded(Decimal(seconds), 2)
            ELSE dhm
    ELSE IF TimeSpan_ge(self, TimeSpan_HOUR) THEN
        LET hours == TimeSpan_div(self, TimeSpan_HOUR)
            span2 == TimeSpan_rem(self, TimeSpan_HOUR)
            minutes == TimeSpan_div(span2, TimeSpan_MINUTE)
            span3 == TimeSpan_rem(span2, TimeSpan_MINUTE)
            seconds == TimeSpan_div(span3, TimeSpan_SECOND)
            span4 == TimeSpan_rem(span3, TimeSpan_SECOND)
            millis == TimeSpan_div(span4, TimeSpan_MILLISECOND)
            hms == Decimal(hours) \o <<":">> \o Padded(Decimal(minutes), 2)
                     \o <<":">> \o Padded(Decimal(seconds), 2)
        IN  IF millis > 0
            THEN hms \o <<".">> \o Padded(Decimal(millis), 3)
            ELSE hms
    ELSE IF TimeSpan_ge(self, TimeSpan_MINUTE) THEN
        LET minutes == TimeSpan_div(self, TimeSpan_MINUTE)
            span3 == TimeSpan_rem(self, TimeSpan_MINUTE)
            seconds == TimeSpan_div(span3, TimeSpan_SECOND)
            span4 == TimeSpan_rem(span3, TimeSpan_SECOND)
            millis == TimeSpan_div(span4, TimeSpan_MILLISECOND)
            ms == Decimal(minutes) \o <<":">> \o Padded(Decimal(seconds), 2)
        IN  IF millis > 0
            THEN ms \o <<".">> \o Padded(Decimal(millis), 3)
            ELSE ms
    ELSE IF TimeSpan_ge(self, TimeSpan_SECOND) THEN
        LET seconds == TimeSpan_div(self, TimeSpan_SECOND)
            span4 == TimeSpan_rem(self, TimeSpan_SECOND)
            millis == TimeSpan_div(span4, TimeSpan_MILLISECOND)
        IN  IF millis > 0
            THEN Decimal(seconds) \o <<".">> \o Padded(Decimal(millis), 3) \o <<"s">>
            ELSE Decimal(seconds) \o <<"s">>
    ELSE IF TimeSpan_ge(self, TimeSpan_MILLISECOND) THEN
        LET millis == TimeSpan_div(self, TimeSpan_MILLISECOND)
            span5 == TimeSpan_rem(self, TimeSpan_MILLISECOND)
            micros == TimeSpan_div(span5, TimeSpan_MICROSECOND)
        IN  IF micros > 0
            THEN Decimal(millis) \o <<".">> \o Padded(Decimal(micros), 3) \o <<"m", "s">>
            ELSE Decimal(millis) \o <<"m", "s">>
    ELSE IF TimeSpan_ge(self, TimeSpan_MICROSECOND) THEN
        LET micros == TimeSpan_div(self, TimeSpan_MICROSECOND)
            span6 == TimeSpan_rem(self, TimeSpan_MICROSECOND)
            nanos == TimeSpan_div(span6, TimeSpan_NANOSECOND)
        IN  IF nanos > 0
            THEN Decimal(micros) \o <<".">> \o Padded(Decimal(nanos), 3) \o <<"u", "s">>
            ELSE Decimal(micros) \o <<"u", "s">>
    ELSE Decimal(TimeSpan_div(self, TimeSpan_NANOSECOND)) \o <<"n", "s">>

\* Display::to_string.
TimeSpan_to_string(self) == TimeSpan_fmt(self)

MAX_TIME_SPAN_STRING == 48

ParseOk(span) ==
    [ok |-> TRUE, span |-> span, err |-> "none", delim |-> "", pos |-> 0]

ParseErr(err, delim, pos) ==
    [ok |-> FALSE, span |-> TimeSpan_ZERO, err |-> err, delim |-> delim, pos |-> pos]

\* s.match_indices(|c| !c.is_ascii_digit() && !c.is_ascii_whitespace()): the
\* positions of the separators, in order.
Seps(s) ==
    LET positions == [i \in 1..Len(s) |-> i - 1]
        IsSep(p) == ~is_ascii_digit(s[p + 1]) /\ ~is_ascii_whitespace(s[p + 1])
    IN  SelectSeq(positions, IsSep)

\* Ranges::parse.  A range is <<from, to>>.
Ranges_parse(self, s) ==
    LET Field(range) ==
            IF range = None THEN [ok |-> TRUE, value |-> 0]
            ELSE parse_u64(trim(Slice(s, range[1][1], range[1][2])))
        seconds == Field(self.seconds)
        minutes == Field(self.minutes)
        hours == Field(self.hours)
        days == Field(self.days)
        fract == Field(self.fract)
        micros == IF self.denom > 6
                  THEN fract.value \div Pow10(self.denom - 6)
                  ELSE fract.value * Pow10(6 - self.denom)
    IN  IF ~seconds.ok THEN ParseErr("IntParseError", "", 0)
        ELSE IF self.minutes # None /\ seconds.value > 59
        THEN ParseErr("SecondsOutOfBound", "", seconds.value)
        ELSE IF ~minutes.ok THEN ParseErr("IntParseError", "", 0)
        ELSE IF self.hours # None /\ minutes.value > 59
        THEN ParseErr("MinutesOutOfBound", "", minutes.value)
        ELSE IF ~hours.ok THEN ParseErr("IntParseError", "", 0)
        ELSE IF self.days # None /\ hours.value > 23
        THEN ParseErr("HoursOutOfBound", "", hours.value)
        ELSE IF ~days.ok THEN ParseErr("IntParseError", "", 0)
        ELSE IF ~fract.ok THEN ParseErr("IntParseError", "", 0)
        ELSE ParseOk(
                TimeSpan_add(TimeSpan_add(TimeSpan_add(TimeSpan_add(
                    TimeSpan_mul(days.value, TimeSpan_DAY),
                    TimeSpan_mul(hours.value, TimeSpan_HOUR)),
                    TimeSpan_mul(minutes.value, TimeSpan_MINUTE)),
                    TimeSpan_mul(seconds.value, TimeSpan_SECOND)),
                    TimeSpan_mul(micros, TimeSpan_MICROSECOND)))

\* <TimeSpan as FromStr>::from_str.  Every string of the model is ASCII.
TimeSpan_from_str(s) ==
    IF Len(s) > MAX_TIME_SPAN_STRING THEN ParseErr("StringTooLarge", "", Len(s))
    ELSE
    LET seps == Seps(s)
        n == Len(seps)
        len == Len(s)
        delim(i) == s[seps[i] + 1]
        Unexpected(i) == ParseErr("UnexpectedDelimiter", delim(i), seps[i])
        R(days, hours, minutes, seconds, fract, denom) ==
            Ranges_parse([days |-> days, hours |-> hours, minutes |-> minutes,
                          seconds |-> seconds, fract |-> fract, denom |-> denom], s)
        Capped(sf) == IF len < sf + 21 THEN len ELSE sf + 21
        Suffixed(word, unit) ==
            IF trim(Slice(s, seps[1], len)) # word
            THEN ParseErr("UnexpectedSuffix", "", 0)
            ELSE LET v == parse_u64(trim(Slice(s, 0, seps[1])))
                 IN  IF ~v.ok THEN ParseErr("IntParseError", "", 0)
                     ELSE ParseOk(TimeSpan_mul(v.value, unit))
    IN  IF n = 0 THEN
            LET v == parse_u64(trim(s))
            IN  IF ~v.ok THEN ParseErr("IntParseError", "", 0)
                ELSE ParseOk(TimeSpan_mul(v.value, TimeSpan_SECOND))
        ELSE IF delim(1) \in {"d", "D", "t", "T"} THEN
            IF n = 1 THEN ParseErr("UnexpectedEndOfString", "", 0)
            ELSE IF delim(2) # ":" THEN Unexpected(2)
            ELSE IF n = 2
            THEN R(Some(<<0, seps[1]>>), Some(<<seps[1] + 1, seps[2]>>),
                   Some(<<seps[2] + 1, len>>), None, None, 0)
            ELSE IF delim(3) # ":" THEN Unexpected(3)
            ELSE IF n = 3
            THEN R(Some(<<0, seps[1]>>), Some(<<seps[1] + 1, seps[2]>>),
                   Some(<<seps[2] + 1, seps[3]>>), Some(<<seps[3] + 1, len>>),
                   None, 0)
            ELSE IF delim(4) # "." THEN Unexpected(4)
            ELSE IF n > 4 THEN Unexpected(5)
            ELSE R(Some(<<0, seps[1]>>), Some(<<seps[1] + 1, seps[2]>>),
                   Some(<<seps[2] + 1, seps[3]>>), Some(<<seps[3] + 1, seps[4]>>),
                   Some(<<seps[4] + 1, Capped(seps[4])>>), len - seps[4] - 1)
        ELSE IF delim(1) = ":" THEN
            IF n = 1
            THEN R(None, None, Some(<<0, seps[1]>>), Some(<<seps[1] + 1, len>>),
                   None, 0)
            ELSE IF delim(2) = ":" THEN
                IF n = 2
                THEN R(None, Some(<<0, seps[1]>>), Some(<<seps[1] + 1, seps[2]>>),
                       Some(<<seps[2] + 1, len>>), None, 0)
                ELSE IF delim(3) # "." THEN Unexpected(3)
                ELSE IF n > 3 THEN Unexpected(4)
                ELSE R(None, Some(<<0, seps[1]>>), Some(<<seps[1] + 1, seps[2]>>),
                       Some(<<seps[2] + 1, seps[3]>>),
                       Some(<<seps[3] + 1, Capped(seps[3])>>), len - seps[3] - 1)
            ELSE IF delim(2) = "." THEN
                IF n > 2 THEN Unexpected(3)
                ELSE R(None, None, Some(<<0, seps[1]>>), Some(<<seps[1] + 1, seps[2]>>),
                       Some(<<seps[2] + 1, len>>), len - seps[2] - 1)
            ELSE Unexpected(2)
        ELSE IF delim(1) = "." THEN
            IF n > 1 THEN Unexpected(2)
            ELSE R(None, None, None, Some(<<0, seps[1]>>),
                   Some(<<seps[1] + 1, len>>), len - seps[1] - 1)
        ELSE IF delim(1) = "s" THEN Suffixed(<<"s">>, TimeSpan_SECOND)
        ELSE IF delim(1) = "m" THEN Suffixed(<<"m", "s">>, TimeSpan_MILLISECOND)
        ELSE IF delim(1) = "u" THEN Suffixed(<<"u", "s">>, TimeSpan_MICROSECOND)
        ELSE Unexpected(1)

(***************************************************************************)
(* global_reference.rs.  The cell is GLOBAL_REFERENCE: None until it is    *)
(* initialised.  OnceLock::get_or_init runs the closure and stores its     *)
(* value only if the cell is empty, atomically for the callers.            *)
(***************************************************************************)
\* Variant: the value is stored whether the cell is empty or not.
get_or_init_always(c, value) == [cell |-> Some(value), value |-> value]

\* get_or_init(value): the cell it leaves and the instant it returns.
get_or_init(c, value) ==
    IF c = None
    THEN [cell |-> Some(value), value |-> value]
    ELSE [cell |-> c, value |-> c[1]]

\* Instant::duration_since saturates to zero when earlier is the later one.
Instant_duration_since(later, earlier) ==
    IF later >= earlier THEN later - earlier ELSE 0

\* reference_and_elapsed() after `now` was sampled: the cell it leaves and the
\* pair it returns.
reference_and_elapsed(c, now) ==
    LET r == get_or_init(c, now)
    IN  [cell |-> r.cell,
         pair |-> [reference |-> r.value,
                   elapsed |-> Instant_duration_since(now, r.value)]]

(***************************************************************************)
(* clock.rs: GlobalClock.  elapsed is global_reference::elapsed(), the     *)
(* reading of the monotonic clock the call takes.                          *)
(***************************************************************************)
GlobalClock_new(elapsed) == [now |-> TimeStamp_now(elapsed)]

GlobalClock_now(g) == g.now

\* step(): the ClockStep it returns and the clock it leaves.
GlobalClock_step(g, elapsed) ==
    LET now == TimeStamp_now(elapsed)
        step == TimeStamp_elapsed_since(now, g.now)
    IN  [clock |-> g, step |-> [now |-> now, step |-> step]]

(***************************************************************************)
(* The ticker as a state machine.                                          *)
(***************************************************************************)
\* Frequency has public fields, so a ticker may hold any count and any
\* non-zero cycle, reduced or not.
Frequencies == [count : 0..MaxCount, cycle : 1..MaxCycle]

\* test_freq_ticker: 3 ticks per 10 ns, fed 10 ns at once and then 10 x 10
\* single nanoseconds.  A run of the model feeds that ticker any sequence of
\* 1 ns and 10 ns spans of the same total length.
TestCount == 3
TestCycle == 10
TestRounds == 10
TestNanos == TestCycle + TestRounds * TestCycle

\* test_freq_ticker_delay: the same frequency delayed by 12 periods, fed 40 ns
\* at once and then 10 x 10 single nanoseconds.
DELAY == 12
TestWait == 40
TestDelayNanos == TestWait + TestRounds * TestCycle

NoCall == [op |-> "new", pre |-> None, step |-> 0, count |-> 0, seen |-> None,
           clip |-> FALSE]

\* The paused clocks a ticker may be taken from.
PausedClocks ==
    [now : 1..MaxStart, nom : {0}, denom : 1..MaxDenom, until_next : 0..MaxDenom]

TickerInit ==
    /\ \/ \E f \in Frequencies, d \in 0..MaxDelay, s \in 1..MaxStart :
             /\ ticker = FrequencyTicker_with_delay(f, d, s)
             /\ hist = [start |-> s, delay |-> d, changed |-> FALSE, test |-> FALSE,
                        ticks |-> 0]
       \/ /\ ticker = FrequencyTicker_new(Frequency_new(TestCount, TestCycle),
                                          TimeStamp_start)
          /\ hist = [start |-> TimeStamp_start, delay |-> 0, changed |-> FALSE,
                     test |-> TRUE, ticks |-> 0]
       \/ /\ ticker = FrequencyTicker_with_delay(Frequency_new(TestCount, TestCycle),
                                                 DELAY, TimeStamp_start)
          /\ hist = [start |-> TimeStamp_start, delay |-> DELAY, changed |-> FALSE,
                     test |-> TRUE, ticks |-> 0]
       \/ \E c \in PausedClocks, f \in Frequencies :
             /\ ticker = ClockRate_ticker(c, f)
             /\ hist = [start |-> c.now, delay |-> 0, changed |-> FALSE,
                        test |-> FALSE, ticks |-> 0]
    /\ iter = None
    /\ emitted = <<>>
    /\ exhausted = FALSE
    /\ call = NoCall

\* A next_tick() reading taken right before this call.
Seen == IF call.op = "next_tick" THEN Some(call.seen) ELSE None

\* The spans the run feeds to the ticker.
Steps ==
    IF hist.test
    THEN {s \in {1, TestCycle} :
             TimeStamp_nanos(ticker.now) + s
                 <= IF hist.delay = 0 THEN TestNanos ELSE TestDelayNanos}
    ELSE {s \in 0..MaxStep : TimeStamp_nanos(ticker.now) + s <= MaxNow}

Ticks(step) ==
    /\ LET r == FrequencyTicker_ticks(ticker, step)
           n == FrequencyTickerIter_ticks(r.iter)
       IN  /\ ticker' = r.ticker
           /\ iter' = Some(r.iter)
           /\ call' = [op |-> "ticks", pre |-> Some(ticker), step |-> step,
                       count |-> n, seen |-> Seen, clip |-> FALSE]
           /\ hist' = [hist EXCEPT !.ticks = IF hist.changed THEN 0 ELSE @ + n]
    /\ emitted' = <<>>
    /\ exhausted' = FALSE
    /\ UNCHANGED <<rateVars, freqVars, stampVars, clockVars,
                  refVars, spanVars>>

TickCount(step) ==
    /\ LET r == FrequencyTicker_tick_count(ticker, step)
       IN  /\ ticker' = r.ticker
           /\ call' = [op |-> "tick_count", pre |-> Some(ticker), step |-> step,
                       count |-> r.count, seen |-> Seen, clip |-> FALSE]
           /\ hist' = [hist EXCEPT !.ticks = IF hist.changed THEN 0 ELSE @ + r.count]
    /\ iter' = None
    /\ emitted' = <<>>
    /\ exhausted' = FALSE
    /\ UNCHANGED <<rateVars, freqVars, stampVars, clockVars,
                  refVars, spanVars>>

\* next() may be called again after it has returned None.
IterNext ==
    /\ iter # None
    /\ LET r == FrequencyTickerIter_next(iter[1])
       IN  /\ iter' = Some(r.iter)
           /\ emitted' = IF r.item = None THEN emitted ELSE Append(emitted, r.item[1])
           /\ exhausted' = (r.item = None)
    /\ UNCHANGED <<ticker, call, hist>>
    /\ UNCHANGED <<rateVars, freqVars, stampVars, clockVars,
                  refVars, spanVars>>

NextTick ==
    /\ call.op # "next_tick"
    /\ call' = [op |-> "next_tick", pre |-> Some(ticker), step |-> 0, count |-> 0,
                seen |-> FrequencyTicker_next_tick(ticker), clip |-> FALSE]
    /\ iter' = None
    /\ emitted' = <<>>
    /\ exhausted' = FALSE
    /\ UNCHANGED <<ticker, hist>>
    /\ UNCHANGED <<rateVars, freqVars, stampVars, clockVars,
                  refVars, spanVars>>

SetFrequency(freq, clip_period) ==
    /\ ~hist.test
    /\ ticker' = FrequencyTicker_set_frequency(ticker, freq, clip_period)
    /\ call' = [op |-> "set_frequency", pre |-> Some(ticker), step |-> 0, count |-> 0,
                seen |-> None, clip |-> clip_period]
    /\ hist' = [hist EXCEPT !.changed = TRUE, !.delay = 0, !.ticks = 0]
    /\ iter' = None
    /\ emitted' = <<>>
    /\ exhausted' = FALSE
    /\ UNCHANGED <<rateVars, freqVars, stampVars, clockVars,
                  refVars, spanVars>>

Next ==
    \/ \E step \in Steps : Ticks(step)
    \/ \E step \in Steps : TickCount(step)
    \/ IterNext
    \/ NextTick
    \/ \E f \in Frequencies, c \in BOOLEAN : SetFrequency(f, c)

Idle == [now |-> 0]

Init ==
    /\ TickerInit
    /\ clock = Idle /\ rcall = Idle /\ rhist = Idle
    /\ fin = Idle /\ fout = Idle
    /\ build = Idle /\ stamp = Idle /\ scall = Idle
    /\ instant = Idle /\ gclock = Idle /\ gcall = Idle
    /\ monotonic = Idle /\ cell = Idle /\ threads = Idle /\ written = Idle
    /\ tspan = Idle /\ text = Idle

Spec == Init /\ [][Next]_vars

(***************************************************************************)
(* The ClockRate as a state machine.                                       *)
(***************************************************************************)
\* rhist follows a clock from new() or reset(): whether its ratio was left at
\* the default, whether the ratio or now was set after its first step, whether
\* pause() was the last change of the ratio, the nanoseconds fed to step and
\* the sum of the steps returned.
NewHistory(default, paused) ==
    [default |-> default, stepped |-> FALSE, steady |-> TRUE, paused |-> paused,
     fed |-> 0, returned |-> 0]

\* A change of the ratio after the first step ends the history.
Unsteady(h) ==
    IF h.stepped
    THEN [h EXCEPT !.steady = FALSE, !.stepped = FALSE, !.fed = 0, !.returned = 0]
    ELSE h

RateInit ==
    /\ clock = ClockRate_new
    /\ rcall = [op |-> "new", pre |-> None, span |-> 0, step |-> None,
                paused |-> FALSE, freq |-> None, made |-> None, rate |-> None]
    /\ rhist = NewHistory(TRUE, FALSE)

Called(op, span, step) ==
    [op |-> op, pre |-> Some(clock), span |-> span, step |-> step,
     paused |-> rhist.paused, freq |-> None, made |-> None, rate |-> None]

Step(span) ==
    /\ rhist.fed + span <= MaxFed
    /\ TimeStamp_nanos(clock.now) + span * clock.nom <= MaxFed * MaxNom
    /\ LET r == ClockRate_step(clock, span)
       IN  /\ clock' = r.clock
           /\ rcall' = IF r.panicked
                       THEN Called("step_panic", span, None)
                       ELSE Called("step", span, Some(r.step))
           /\ rhist' = IF rhist.steady /\ ~r.panicked
                       THEN [rhist EXCEPT !.stepped = TRUE,
                                          !.fed = @ + span,
                                          !.returned = @ + r.step.step]
                       ELSE rhist
    /\ UNCHANGED <<tickerVars, freqVars, stampVars, clockVars,
                  refVars, spanVars>>

SetRateRatio(nom, denom) ==
    /\ clock' = ClockRate_set_rate_ratio(clock, nom, denom)
    /\ rcall' = Called("set_rate_ratio", 0, None)
    /\ rhist' = Unsteady([rhist EXCEPT !.default = FALSE, !.paused = FALSE])
    /\ UNCHANGED <<tickerVars, freqVars, stampVars, clockVars,
                  refVars, spanVars>>

\* The rates given to set_rate.
TestRates ==
    {f32_NAN, f32_INFINITY, f32_NEG_INFINITY, Finite(U64_MAX + 1, 1)}
        \cup {Finite(n, 1) : n \in -1..2}
        \cup {Finite(n, 2) : n \in {-1, 1, 3}}

SetRate(rate) ==
    /\ LET r == ClockRate_set_rate(clock, rate)
       IN  /\ clock' = r.clock
           /\ rcall' = [Called(IF r.panicked THEN "set_rate_panic" ELSE "set_rate",
                               0, None) EXCEPT !.rate = Some(rate)]
           /\ rhist' = IF r.panicked THEN rhist
                       ELSE Unsteady([rhist EXCEPT !.default = FALSE,
                                                   !.paused = FALSE])
    /\ UNCHANGED <<tickerVars, freqVars, stampVars, clockVars,
                  refVars, spanVars>>

Pause ==
    /\ clock' = ClockRate_pause(clock)
    /\ rcall' = Called("pause", 0, None)
    /\ rhist' = Unsteady([rhist EXCEPT !.default = FALSE, !.paused = TRUE])
    /\ UNCHANGED <<tickerVars, freqVars, stampVars, clockVars,
                  refVars, spanVars>>

Reset ==
    /\ clock' = ClockRate_reset(clock)
    /\ rcall' = Called("reset", 0, None)
    /\ rhist' = NewHistory(rhist.default, rhist.paused)
    /\ UNCHANGED <<tickerVars, freqVars, stampVars, clockVars,
                  refVars, spanVars>>

SetNow(now) ==
    /\ clock' = ClockRate_set_now(clock, now)
    /\ rcall' = Called("set_now", 0, None)
    /\ rhist' = [rhist EXCEPT !.steady = FALSE, !.stepped = FALSE,
                              !.fed = 0, !.returned = 0]
    /\ UNCHANGED <<tickerVars, freqVars, stampVars, clockVars,
                  refVars, spanVars>>

\* ticker(freq) takes &self: the call returns a ticker and leaves the clock.
Ticker(freq) ==
    /\ rcall' = [Called("ticker", 0, None) EXCEPT
                    !.freq = Some(freq),
                    !.made = Some(ClockRate_ticker(clock, freq))]
    /\ UNCHANGED <<clock, rhist>>
    /\ UNCHANGED <<tickerVars, freqVars, stampVars, clockVars,
                  refVars, spanVars>>

NextRate ==
    \/ \E span \in (-MaxSpan)..MaxSpan : Step(span)
    \/ \E nom \in 0..MaxNom, denom \in 1..MaxDenom : SetRateRatio(nom, denom)
    \/ \E rate \in TestRates : SetRate(rate)
    \/ Pause
    \/ Reset
    \/ \E now \in 1..MaxSetNow : SetNow(now)
    \/ \E freq \in Frequencies : Ticker(freq)

InitRate ==
    /\ RateInit
    /\ ticker = Idle /\ iter = Idle /\ emitted = Idle /\ exhausted = Idle
    /\ call = Idle /\ hist = Idle
    /\ fin = Idle /\ fout = Idle
    /\ build = Idle /\ stamp = Idle /\ scall = Idle
    /\ instant = Idle /\ gclock = Idle /\ gcall = Idle
    /\ monotonic = Idle /\ cell = Idle /\ threads = Idle /\ written = Idle
    /\ tspan = Idle /\ text = Idle

SpecRate == InitRate /\ [][NextRate]_vars

(***************************************************************************)
(* The constructors of Frequency.                                          *)
(***************************************************************************)
FreqInit ==
    /\ fin = [op |-> "none", count |-> 0, cycle |-> 1]
    /\ fout = None

New(count, cycle) ==
    /\ fin' = [op |-> "new", count |-> count, cycle |-> cycle]
    /\ fout' = Some(Frequency_new(count, cycle))
    /\ UNCHANGED <<tickerVars, rateVars, stampVars, clockVars,
                  refVars, spanVars>>

TryNew(count, cycle) ==
    /\ fin' = [op |-> "try_new", count |-> count, cycle |-> cycle]
    /\ fout' = Frequency_try_new(count, cycle)
    /\ UNCHANGED <<tickerVars, rateVars, stampVars, clockVars,
                  refVars, spanVars>>

FromHz(value) ==
    /\ fin' = [op |-> "from_hz", count |-> value, cycle |-> NonZeroTimeSpan_SECOND]
    /\ fout' = Some(Frequency_from_hz(value))
    /\ UNCHANGED <<tickerVars, rateVars, stampVars, clockVars,
                  refVars, spanVars>>

FromKhz(value) ==
    /\ fin' = [op |-> "from_khz", count |-> value,
               cycle |-> NonZeroTimeSpan_MILLISECOND]
    /\ fout' = Some(Frequency_from_khz(value))
    /\ UNCHANGED <<tickerVars, rateVars, stampVars, clockVars,
                  refVars, spanVars>>

FromMhz(value) ==
    /\ fin' = [op |-> "from_mhz", count |-> value,
               cycle |-> NonZeroTimeSpan_MICROSECOND]
    /\ fout' = Some(Frequency_from_mhz(value))
    /\ UNCHANGED <<tickerVars, rateVars, stampVars, clockVars,
                  refVars, spanVars>>

FromGhz(value) ==
    /\ fin' = [op |-> "from_ghz", count |-> value,
               cycle |-> NonZeroTimeSpan_NANOSECOND]
    /\ fout' = Some(Frequency_from_ghz(value))
    /\ UNCHANGED <<tickerVars, rateVars, stampVars, clockVars,
                  refVars, spanVars>>

\* The rates the tests and examples pass to from_hz and its siblings are
\* multiples of small numbers and of powers of ten.
Rates == (0..MaxArg) \cup {10 * v : v \in 0..MaxArg} \cup {1000 * v : v \in 0..MaxArg}

NextFreq ==
    \/ \E count \in 0..MaxArg, cycle \in 1..MaxArg : New(count, cycle)
    \/ \E count \in 0..MaxArg, cycle \in 0..MaxArg : TryNew(count, cycle)
    \/ \E value \in Rates : FromHz(value)
    \/ \E value \in Rates : FromKhz(value)
    \/ \E value \in Rates : FromMhz(value)
    \/ \E value \in Rates : FromGhz(value)

InitFreq ==
    /\ FreqInit
    /\ ticker = Idle /\ iter = Idle /\ emitted = Idle /\ exhausted = Idle
    /\ call = Idle /\ hist = Idle
    /\ clock = Idle /\ rcall = Idle /\ rhist = Idle
    /\ build = Idle /\ stamp = Idle /\ scall = Idle
    /\ instant = Idle /\ gclock = Idle /\ gcall = Idle
    /\ monotonic = Idle /\ cell = Idle /\ threads = Idle /\ written = Idle
    /\ tspan = Idle /\ text = Idle

SpecFreq == InitFreq /\ [][NextFreq]_vars

(***************************************************************************)
(* The constructors and the arithmetic of TimeStamp.                       *)
(***************************************************************************)
Builds == {"debug", "release"}

StampInit ==
    /\ build \in Builds
    /\ stamp = TimeStamp_start
    /\ scall = [op |-> "start", arg |-> 0, pre |-> TimeStamp_start,
                out |-> Some(TimeStamp_start), panicked |-> FALSE]

\* The call op(arg) made on the stamp held: r is what a build without debug
\* assertions returns, failed whether a debug assertion on its path fails.
\* The stamp returned, if any, is the one held next.
StampCalled(op, arg, r, failed) ==
    LET panicked == build = "debug" /\ failed
    IN  [scall |-> [op |-> op, arg |-> arg, pre |-> stamp,
                    out |-> IF panicked THEN None ELSE r, panicked |-> panicked],
         stamp |-> IF panicked \/ r = None THEN stamp ELSE r[1]]

Never ==
    /\ LET c == StampCalled("never", 0, Some(TimeStamp_never), FALSE)
       IN  scall' = c.scall /\ stamp' = c.stamp
    /\ UNCHANGED build
    /\ UNCHANGED <<tickerVars, rateVars, freqVars, clockVars,
                  refVars, spanVars>>

FromElapsed(nanos) ==
    /\ LET c == StampCalled("from_elapsed", nanos, TimeStamp_from_elapsed(nanos),
                            FALSE)
       IN  scall' = c.scall /\ stamp' = c.stamp
    /\ UNCHANGED build
    /\ UNCHANGED <<tickerVars, rateVars, freqVars, clockVars,
                  refVars, spanVars>>

FromDuration(duration) ==
    /\ LET r == TimeStamp_from_duration(duration)
           c == StampCalled("from_duration", duration, r,
                    r # None /\ ~debug_assert_from_elapsed_unchecked(duration))
       IN  scall' = c.scall /\ stamp' = c.stamp
    /\ UNCHANGED build
    /\ UNCHANGED <<tickerVars, rateVars, freqVars, clockVars,
                  refVars, spanVars>>

AddSpan(span) ==
    /\ LET r == TimeStamp_add_span(stamp, span)
           c == StampCalled("add_span", span, r,
                    \/ ~debug_assert_nanos(stamp)
                    \/ r # None /\ ~debug_assert_from_elapsed_unchecked(
                                        TimeStamp_nanos(stamp) + span))
       IN  scall' = c.scall /\ stamp' = c.stamp
    /\ UNCHANGED build
    /\ UNCHANGED <<tickerVars, rateVars, freqVars, clockVars,
                  refVars, spanVars>>

SubSpan(span) ==
    /\ LET r == TimeStamp_sub_span(stamp, span)
           c == StampCalled("sub_span", span, r,
                    \/ ~debug_assert_nanos(stamp)
                    \/ r # None /\ ~debug_assert_from_elapsed_unchecked(
                                        TimeStamp_nanos(stamp) - span))
       IN  scall' = c.scall /\ stamp' = c.stamp
    /\ UNCHANGED build
    /\ UNCHANGED <<tickerVars, rateVars, freqVars, clockVars,
                  refVars, spanVars>>

NextStamp ==
    \/ Never
    \/ \E nanos \in 0..(I64_MAX + 1) : FromElapsed(nanos)
    \/ \E duration \in 0..(I64_MAX + 1) : FromDuration(duration)
    \/ \E span \in I64_MIN..I64_MAX : AddSpan(span)
    \/ \E span \in I64_MIN..I64_MAX : SubSpan(span)

InitStamp ==
    /\ StampInit
    /\ ticker = Idle /\ iter = Idle /\ emitted = Idle /\ exhausted = Idle
    /\ call = Idle /\ hist = Idle
    /\ clock = Idle /\ rcall = Idle /\ rhist = Idle
    /\ fin = Idle /\ fout = Idle
    /\ instant = Idle /\ gclock = Idle /\ gcall = Idle
    /\ monotonic = Idle /\ cell = Idle /\ threads = Idle /\ written = Idle
    /\ tspan = Idle /\ text = Idle

SpecStamp == InitStamp /\ [][NextStamp]_vars

(***************************************************************************)
(* Properties of the ticker.                                               *)
(***************************************************************************)
TickOps == {"ticks", "tick_count"}

\* Nanoseconds fed to the ticker since it was created.
Elapsed == TimeStamp_nanos(ticker.now) - TimeStamp_nanos(hist.start)

\* The ticker was created with FrequencyTicker::new and kept its frequency.
Fresh == ~hist.changed /\ hist.delay = 0

\* The least n with n * b >= a.
Ceiling(a, b) == CHOOSE n \in 0..a : n * b >= a /\ (n = 0 \/ (n - 1) * b < a)

TestPattern == <<0, 0, 0, 1, 0, 0, 1, 0, 0, 1>>

\* C1: a ticker created with new() has reported floor(T * count / cycle) ticks
\* after being fed T nanoseconds, however T was split into calls, whether the
\* ticks are counted by tick_count or by iterating ticks(); 3 ticks per 10 ns
\* fed one nanosecond at a time gives [0,0,0,1,0,0,1,0,0,1] in every cycle.
NoDrift ==
    Fresh =>
        LET expected == (Elapsed * ticker.freq.count) \div ticker.freq.cycle
        IN  /\ hist.ticks = expected
            /\ (call.op = "ticks" /\ exhausted) =>
                  hist.ticks - call.count + Len(emitted) = expected
            /\ (hist.test /\ call.op \in TickOps /\ call.step = 1) =>
                  call.count = TestPattern[((Elapsed - 1) % TestCycle) + 1]

NoDriftWitness ==
    /\ Fresh /\ ~hist.test
    /\ call.op = "ticks" /\ exhausted
    /\ Len(emitted) >= 1
    /\ hist.ticks > call.count
    /\ ticker.until_next < ticker.freq.cycle
    /\ ticker.freq.count > 1

\* C2: the count tick_count(s) returns equals the number of ClockSteps that
\* iterating ticks(s) to its end yields on an identical ticker, in every
\* state of the ticker.
ClosedFormIsIteration ==
    (call.op = "ticks" /\ exhausted) =>
        Len(emitted) = FrequencyTicker_tick_count(call.pre[1], call.step).count

ClosedFormIsIterationWitness ==
    /\ call.op = "ticks" /\ exhausted
    /\ hist.changed
    /\ Len(emitted) >= 3
    /\ emitted[2].step = 0
    /\ call.pre[1].until_next > call.pre[1].freq.cycle

\* C3: a call with s1 followed by a call with s2 leaves the ticker in the
\* state, and reports the total, of one call with s1 + s2.
SplitIsBatch ==
    call.op \in TickOps =>
        \A s1 \in 0..call.step :
            LET a == FrequencyTicker_tick_count(call.pre[1], s1)
                b == FrequencyTicker_tick_count(a.ticker, call.step - s1)
            IN  /\ b.ticker = ticker
                /\ a.count + b.count = call.count

SplitIsBatchWitness ==
    /\ call.op \in TickOps
    /\ call.pre[1].until_next # call.pre[1].freq.cycle
    /\ \E s1 \in 1..(call.step - 1) :
          LET a == FrequencyTicker_tick_count(call.pre[1], s1)
              b == FrequencyTicker_tick_count(a.ticker, call.step - s1)
          IN  a.count >= 1 /\ b.count >= 1 /\ a.ticker.until_next < a.ticker.freq.cycle

\* C4: the k-th tick of a ticker created with new() at S carries the time
\* stamp S + ceil(k * cycle / count), however the time was split into calls,
\* and its step is its distance from the tick emitted before it in the same
\* call, or from the ticker's now before the call; 3 ticks per 10 ns fed 10 ns
\* at once gives the offsets 4, 7, 10 with the steps 4, 3, 3.
TickStamps ==
    (Fresh /\ call.op = "ticks" /\ ticker.freq.count > 0) =>
        /\ \A i \in 1..Len(emitted) :
              LET k == hist.ticks - call.count + i
                  before == IF i = 1 THEN call.pre[1].now ELSE emitted[i - 1].now
              IN  /\ TimeStamp_nanos(emitted[i].now) =
                        TimeStamp_nanos(hist.start)
                            + Ceiling(k * ticker.freq.cycle, ticker.freq.count)
                  /\ emitted[i].step = TimeStamp_nanos(emitted[i].now)
                                           - TimeStamp_nanos(before)
        /\ (hist.test /\ Elapsed = TestCycle /\ call.step = TestCycle /\ exhausted) =>
              emitted = << [now |-> 5, step |-> 4], [now |-> 8, step |-> 3],
                           [now |-> 11, step |-> 3] >>

TickStampsWitness ==
    /\ Fresh /\ ~hist.test
    /\ call.op = "ticks" /\ exhausted
    /\ hist.ticks - call.count >= 1
    /\ Len(emitted) >= 2
    /\ emitted[1].step # emitted[2].step
    /\ emitted[2].step > 0

\* C7: when next_tick() returns Some(t) for a ticker with count > 0, the
\* following ticks(s) emits a tick exactly when now + s >= t, and the first
\* tick it emits carries t.
NextTickPredicts ==
    (call.op \in TickOps /\ call.seen # None /\ call.pre[1].freq.count > 0) =>
        /\ call.seen[1] # None
        /\ LET t == call.seen[1][1]
               reached == TimeStamp_add(call.pre[1].now, call.step) >= t
           IN  /\ (call.count >= 1) <=> reached
               /\ Len(emitted) >= 1 => emitted[1].now = t
               /\ exhausted => ((Len(emitted) >= 1) <=> reached)

NextTickPredictsWitness ==
    /\ call.op = "ticks" /\ call.seen # None
    /\ call.pre[1].freq.count > 1
    /\ call.pre[1].until_next % call.pre[1].freq.count # 0
    /\ Len(emitted) >= 1
    /\ TimeStamp_add(call.pre[1].now, call.step) > emitted[1].now

\* C8: next_tick() leaves the ticker as it is, and a call that fires no tick
\* leaves the value of next_tick() as it is.
NextTickStable ==
    /\ call.op = "next_tick" => ticker = call.pre[1]
    /\ (call.op \in TickOps /\ call.seen # None /\ call.count = 0) =>
          FrequencyTicker_next_tick(ticker) = call.seen[1]

NextTickStableWitness ==
    /\ call.op \in TickOps /\ call.seen # None
    /\ call.seen[1] # None
    /\ call.count = 0
    /\ call.step > 0
    /\ call.pre[1].freq.count > 1

\* C12: a ticker whose count is 0, whether created so, set so with
\* set_frequency or taken from a paused clock, reports no tick for any span,
\* yields no ClockStep from ticks(), and has no next tick.
NeverTicks ==
    /\ ticker.freq.count = 0 =>
          /\ FrequencyTicker_next_tick(ticker) = None
          /\ \A s \in 0..MaxStep : FrequencyTicker_tick_count(ticker, s).count = 0
    /\ (call.op \in TickOps /\ call.pre[1].freq.count = 0) =>
          /\ call.count = 0
          /\ emitted = <<>>
    /\ (call.op = "next_tick" /\ ticker.freq.count = 0) => call.seen = None

NeverTicksWitness ==
    /\ call.op = "ticks" /\ exhausted
    /\ call.pre[1].freq.count = 0
    /\ call.step > 1
    /\ hist.changed
    /\ call.pre[1].until_next < call.pre[1].freq.cycle

\* C13: a ticker created with with_delay(freq, d, start) and fed T
\* nanoseconds has reported max(0, floor(T * count / cycle) - d) ticks,
\* however T was split into calls; 3 ticks per 10 ns delayed by 12 periods
\* reports nothing in its first 40 ns and [0,0,0,1,0,0,1,0,0,1] per cycle after.
DelayPostpones ==
    ~hist.changed =>
        LET whole == (Elapsed * ticker.freq.count) \div ticker.freq.cycle
            expected == IF whole > hist.delay THEN whole - hist.delay ELSE 0
        IN  /\ hist.ticks = expected
            /\ (call.op = "ticks" /\ exhausted) =>
                  hist.ticks - call.count + Len(emitted) = expected
            /\ (hist.test /\ hist.delay = DELAY /\ call.op \in TickOps) =>
                  /\ Elapsed <= TestWait => hist.ticks = 0
                  /\ (Elapsed > TestWait /\ call.step = 1) =>
                        call.count = TestPattern[((Elapsed - 1) % TestCycle) + 1]

DelayPostponesWitness ==
    /\ ~hist.changed /\ ~hist.test
    /\ hist.delay >= 1
    /\ call.op = "ticks" /\ exhausted
    /\ Len(emitted) >= 1
    /\ hist.ticks > call.count
    /\ ticker.freq.count > 1
    /\ ticker.freq.cycle > 1

\* C14: set_frequency(freq, false) with a count above 0 leaves next_tick()
\* as it was before the call.
KeepsNextTick ==
    (call.op = "set_frequency" /\ ~call.clip /\ ticker.freq.count > 0
        /\ call.pre[1].freq.count > 0) =>
        FrequencyTicker_next_tick(ticker) = FrequencyTicker_next_tick(call.pre[1])

\* C15: after set_frequency(freq, true) until_next is at most freq.cycle, so
\* with a count above 0 the next tick is at most ceil(cycle / count) after
\* now; an until_next that was already within one new period is left as it
\* was; set_frequency never changes now.
ClipBounds ==
    call.op = "set_frequency" =>
        /\ ticker.now = call.pre[1].now
        /\ call.clip =>
              /\ ticker.until_next <= ticker.freq.cycle
              /\ ticker.freq.count > 0 =>
                    /\ FrequencyTicker_next_tick(ticker) # None
                    /\ FrequencyTicker_next_tick(ticker)[1] <=
                          ticker.now + Ceiling(ticker.freq.cycle, ticker.freq.count)
              /\ call.pre[1].until_next <= ticker.freq.cycle =>
                    ticker.until_next = call.pre[1].until_next

ClipBoundsWitness ==
    /\ call.op = "set_frequency" /\ call.clip
    /\ call.pre[1].until_next > ticker.freq.cycle
    /\ ticker.freq.count > 1
    /\ ticker.freq.cycle > 1
    /\ ticker.now > hist.start

\* The tick boundaries of the last call, in elements past the ticker's state
\* before the call: until_next, until_next + cycle, ... up to the span fed.
Boundaries ==
    LET t == call.pre[1]
        span == call.step * t.freq.count
    IN  {b \in 1..span : b >= t.until_next /\ (b - t.until_next) % t.freq.cycle = 0}

\* C25: the iterator of ticks(step) yields one ClockStep for every tick
\* boundary of the call, stamped with the boundary rounded up to the
\* nanosecond; ticks that round up to the same nanosecond follow each other
\* with the same now and a zero step; after None the iterator returns None.
SameNanosecondTicks ==
    call.op = "ticks" =>
        LET t == call.pre[1]
        IN  /\ Len(emitted) <= Cardinality(Boundaries)
            /\ exhausted => Len(emitted) = Cardinality(Boundaries)
            /\ \A i \in 1..Len(emitted) :
                  LET b == t.until_next + (i - 1) * t.freq.cycle
                      before == IF i = 1 THEN t.now ELSE emitted[i - 1].now
                  IN  /\ b \in Boundaries
                      /\ emitted[i].now = t.now + Ceiling(b, t.freq.count)
                      /\ emitted[i].step = emitted[i].now - before
            /\ exhausted =>
                  FrequencyTickerIter_next(iter[1]) = [item |-> None, iter |-> iter[1]]

SameNanosecondTicksWitness ==
    /\ call.op = "ticks" /\ exhausted
    /\ Len(emitted) >= 3
    /\ emitted[1].step > 0
    /\ emitted[2].now = emitted[1].now /\ emitted[2].step = 0
    /\ emitted[3].now > emitted[2].now
    /\ call.pre[1].now > hist.start

\* C26: ticks(step) and tick_count(step) leave the frequency as it was, move
\* now by step and set until_next for the whole span at the call, whether no
\* tick, one or many fire; consuming the iterator, in part or to its end,
\* changes nothing of the ticker.
EagerUpdate ==
    call.op \in TickOps =>
        LET t == call.pre[1]
            span == call.step * t.freq.count
        IN  /\ ticker.freq = t.freq
            /\ ticker.now = t.now + call.step
            /\ ticker.until_next =
                  IF Boundaries = {} THEN t.until_next - span
                  ELSE t.freq.cycle - ((span - t.until_next) % t.freq.cycle)
            /\ exhausted =>
                  /\ iter[1].until_next - iter[1].span = ticker.until_next
                  /\ iter[1].freq = ticker.freq

EagerUpdateWitness ==
    /\ call.op = "ticks" /\ ~exhausted
    /\ Len(emitted) = 1
    /\ call.count >= 3
    /\ ticker.until_next < ticker.freq.cycle
    /\ ticker.now > emitted[1].now

\* C27: until_next of a ticker is at least 1 in every state, and at most the
\* cycle right after a call that fired a tick; the same holds for until_next
\* of the iterator after each tick it has returned.
UntilNextBounds ==
    /\ ticker.until_next >= 1
    /\ (call.op \in TickOps /\ call.count >= 1) =>
          ticker.until_next <= ticker.freq.cycle
    /\ iter # None =>
          /\ iter[1].until_next >= 1
          /\ Len(emitted) >= 1 => iter[1].until_next <= iter[1].freq.cycle

UntilNextBoundsWitness ==
    /\ call.op = "ticks" /\ ~exhausted
    /\ Len(emitted) >= 1
    /\ call.pre[1].until_next > call.pre[1].freq.cycle
    /\ ticker.until_next = ticker.freq.cycle
    /\ iter[1].until_next = iter[1].freq.cycle
    /\ ticker.freq.cycle > 1

\* C28: the time stamps of the ticks of one ticks(step) call never decrease,
\* lie after the ticker's now before the call and not after its now after
\* the call, and their steps add up to the last time stamp less the now
\* before the call.
RECURSIVE SumSteps(_)
SumSteps(seq) == IF seq = <<>> THEN 0 ELSE Head(seq).step + SumSteps(Tail(seq))

TicksOrdered ==
    (call.op = "ticks" /\ call.pre[1].freq.count > 0) =>
        /\ \A i \in 1..Len(emitted) :
              /\ emitted[i].now > call.pre[1].now
              /\ emitted[i].now <= ticker.now
              /\ i > 1 => emitted[i].now >= emitted[i - 1].now
        /\ Len(emitted) >= 1 =>
              /\ SumSteps(emitted) = emitted[Len(emitted)].now - call.pre[1].now
              /\ SumSteps(emitted) <= call.step

TicksOrderedWitness ==
    /\ call.op = "ticks" /\ exhausted
    /\ hist.changed
    /\ Len(emitted) >= 3
    /\ emitted[1].now < emitted[2].now
    /\ emitted[2].now = emitted[3].now
    /\ emitted[3].now < ticker.now

DefaultRateIsIdentity ==
    (rcall.op = "step" /\ rhist.default) =>
        /\ rcall.step[1].step = rcall.span
        /\ clock.now = TimeStamp_add(rcall.pre[1].now, rcall.span)

\* C10: every step of a paused clock returns a zero step with the clock's now,
\* and leaves now as it was.
PausedClockStands ==
    (rcall.op = "step" /\ rcall.paused) =>
        /\ rcall.step[1] = [now |-> rcall.pre[1].now, step |-> 0]
        /\ clock.now = rcall.pre[1].now

PausedClockStandsWitness ==
    /\ rcall.op = "step" /\ rcall.paused
    /\ rcall.span > 1
    /\ rcall.pre[1].until_next > 0
    /\ rcall.pre[1].now > TimeStamp_start
    /\ rcall.pre[1].denom > 1

\* C11: pause() changes nothing but the numerator of the rate, and a step of
\* a paused clock leaves now and until_next as they were, so that the clock
\* resumes from the state it was paused in.
PauseKeepsState ==
    /\ rcall.op = "pause" => clock = [rcall.pre[1] EXCEPT !.nom = 0]
    /\ (rcall.op = "step" /\ rcall.paused) =>
          /\ clock.now = rcall.pre[1].now
          /\ clock.until_next = rcall.pre[1].until_next

\* C18: step() given a negative span panics, and leaves now, the rate and
\* until_next as they were; no step of a negative span returns.
NegativeSpanRejected ==
    /\ rcall.op = "step_panic" =>
          /\ rcall.span < 0
          /\ clock = rcall.pre[1]
    /\ rcall.op = "step" => rcall.span >= 0

NegativeSpanRejectedWitness ==
    /\ rcall.op = "step_panic"
    /\ rcall.span < -1
    /\ rcall.pre[1].until_next > 1
    /\ rcall.pre[1].nom > 1
    /\ rcall.pre[1].now > TimeStamp_start

\* C16: the frequency of the ticker that ticker(freq) returns is, as a
\* rational, (nom * count) / (denom * cycle); the ticker starts at the clock's
\* now with one full period until its first tick, and the clock is as it was.
TickerComposes ==
    rcall.op = "ticker" =>
        LET c == rcall.pre[1]
            f == rcall.freq[1]
            t == rcall.made[1]
        IN  /\ t.freq.cycle >= 1
            /\ t.freq.count * (c.denom * f.cycle) = (c.nom * f.count) * t.freq.cycle
            /\ t.now = c.now
            /\ t.until_next = Frequency_period_elements(t.freq)
            /\ clock = c

TickerComposesWitness ==
    /\ rcall.op = "ticker"
    /\ gcd(rcall.pre[1].nom, rcall.freq[1].cycle) > 1
    /\ gcd(rcall.freq[1].count, rcall.pre[1].denom) > 1
    /\ rcall.pre[1].now > TimeStamp_start
    /\ rcall.pre[1].until_next > 0
    /\ rcall.made[1].freq.count > 0

\* No number above 1 divides both a and b.
Coprime(a, b) ==
    IF a = 0 THEN b = 1 ELSE \A d \in 2..a : ~(a % d = 0 /\ b % d = 0)

\* C17: for a reduced frequency and any ratio the clock holds, a ratio with a
\* common factor and the paused numerator 0 included, the frequency of the
\* ticker that ticker(freq) returns has no common factor of count and cycle.
TickerReduced ==
    (rcall.op = "ticker"
        /\ Coprime(rcall.freq[1].count, rcall.freq[1].cycle)) =>
        Coprime(rcall.made[1].freq.count, rcall.made[1].freq.cycle)

(***************************************************************************)
(* The GlobalClock as a state machine.  The global reference is set by the *)
(* time the clock is constructed; the monotonic clock reads instant        *)
(* nanoseconds past it.                                                    *)
(***************************************************************************)
ClockInit ==
    /\ instant \in 0..MaxInstant
    /\ gclock = GlobalClock_new(instant)
    /\ gcall = [op |-> "new", out |-> None, seen |-> None,
                first |-> TimeStamp_now(instant), prev |-> TimeStamp_now(instant),
                sum |-> 0, calls |-> 0]

\* step() called passed nanoseconds after the last reading of the clock.
GlobalStep(passed) ==
    /\ instant + passed <= MaxInstant
    /\ gcall.calls < MaxCalls
    /\ instant' = instant + passed
    /\ LET r == GlobalClock_step(gclock, instant + passed)
       IN  /\ gclock' = r.clock
           /\ gcall' = [gcall EXCEPT
                           !.op = "step",
                           !.out = Some(r.step),
                           !.seen = None,
                           !.prev = TimeStamp_now(instant),
                           !.sum = @ + r.step.step,
                           !.calls = @ + 1]
    /\ UNCHANGED <<tickerVars, rateVars, freqVars, stampVars,
                  refVars, spanVars>>

GlobalNow ==
    /\ gcall.op # "now"
    /\ gcall' = [gcall EXCEPT !.op = "now", !.seen = Some(GlobalClock_now(gclock))]
    /\ UNCHANGED <<instant, gclock>>
    /\ UNCHANGED <<tickerVars, rateVars, freqVars, stampVars,
                  refVars, spanVars>>

NextClock ==
    \/ \E passed \in 0..MaxInstant : GlobalStep(passed)
    \/ GlobalNow

InitClock ==
    /\ ClockInit
    /\ ticker = Idle /\ iter = Idle /\ emitted = Idle /\ exhausted = Idle
    /\ call = Idle /\ hist = Idle
    /\ clock = Idle /\ rcall = Idle /\ rhist = Idle
    /\ fin = Idle /\ fout = Idle
    /\ build = Idle /\ stamp = Idle /\ scall = Idle
    /\ monotonic = Idle /\ cell = Idle /\ threads = Idle /\ written = Idle
    /\ tspan = Idle /\ text = Idle

SpecClock == InitClock /\ [][NextClock]_vars

(***************************************************************************)
(* The global reference under concurrent callers.  A call is two steps:    *)
(* Instant::now() is sampled (line 15), then get_or_init runs and the call *)
(* returns (lines 16-17); other threads run between the two.               *)
(***************************************************************************)
Threads == {"a", "b"}

Functions == {"reference", "elapsed", "reference_and_elapsed"}

RefInit ==
    /\ monotonic = 0
    /\ cell = None
    /\ threads = [t \in Threads |->
                    [pc |-> "idle", fn |-> "none", now |-> 0, out |-> None]]
    /\ written = <<>>

\* Thread t enters fn and samples Instant::now(), passed nanoseconds after the
\* last sample any thread took.
Sample(t, fn, passed) ==
    /\ threads[t].pc = "idle"
    /\ monotonic + passed <= MaxMonotonic
    /\ monotonic' = monotonic + passed
    /\ threads' = [threads EXCEPT ![t] = [pc |-> "sampled", fn |-> fn,
                                          now |-> monotonic + passed,
                                          out |-> None]]
    /\ UNCHANGED <<cell, written>>
    /\ UNCHANGED <<tickerVars, rateVars, freqVars, stampVars, clockVars, spanVars>>

\* Thread t runs get_or_init and returns.
Return(t) ==
    /\ threads[t].pc = "sampled"
    /\ LET r == reference_and_elapsed(cell, threads[t].now)
       IN  /\ cell' = r.cell
           /\ written' = IF r.cell # cell THEN Append(written, r.cell[1]) ELSE written
           /\ threads' = [threads EXCEPT ![t].pc = "idle", ![t].out = Some(r.pair)]
    /\ UNCHANGED monotonic
    /\ UNCHANGED <<tickerVars, rateVars, freqVars, stampVars, clockVars, spanVars>>

NextRef ==
    \/ \E t \in Threads, fn \in Functions, passed \in 0..MaxMonotonic :
          Sample(t, fn, passed)
    \/ \E t \in Threads : Return(t)

InitRef ==
    /\ RefInit
    /\ ticker = Idle /\ iter = Idle /\ emitted = Idle /\ exhausted = Idle
    /\ call = Idle /\ hist = Idle
    /\ clock = Idle /\ rcall = Idle /\ rhist = Idle
    /\ fin = Idle /\ fout = Idle
    /\ build = Idle /\ stamp = Idle /\ scall = Idle
    /\ instant = Idle /\ gclock = Idle /\ gcall = Idle
    /\ tspan = Idle /\ text = Idle

SpecRef == InitRef /\ [][NextRef]_vars

(***************************************************************************)
(* Properties of TimeStamp.                                                *)
(***************************************************************************)
\* A time stamp from start() to never(); its internal value then fits an i64.
InRange(ts) == TimeStamp_start <= ts /\ ts <= TimeStamp_never

\* C19: every TimeStamp that from_elapsed, from_duration, add_span or sub_span
\* returns as Some lies from start() to never(), and add_span returns no
\* stamp when the exact sum lies outside that range.
RangeChecked ==
    /\ (scall.op \in {"from_elapsed", "from_duration", "add_span", "sub_span"}
          /\ scall.out # None) =>
          InRange(scall.out[1])
    /\ (scall.op = "add_span" /\ InRange(scall.pre)
          /\ ~InRange(scall.pre + scall.arg)) =>
          scall.out = None

(***************************************************************************)
(* Properties of the GlobalClock.                                          *)
(***************************************************************************)
\* C20: every step() of a GlobalClock returns the time elapsed since the step
\* before it, or since the construction for the first, so the steps returned
\* add up to the last time stamp reported less the clock's first now; and
\* now() after a step returns the time stamp that step reported.
GlobalStepAdvances ==
    gcall.out # None =>
        /\ gcall.op = "step" =>
              gcall.out[1].step = TimeStamp_elapsed_since(gcall.out[1].now, gcall.prev)
        /\ gcall.sum = TimeStamp_elapsed_since(gcall.out[1].now, gcall.first)
        /\ GlobalClock_now(gclock) = gcall.out[1].now
        /\ gcall.op = "now" => gcall.seen[1] = gcall.out[1].now

(***************************************************************************)
(* TimeSpan: constants, subtraction of a NonZeroTimeSpan, and to_string    *)
(* followed by parse.                                                      *)
(***************************************************************************)
TestDays == {0, 12}
TestHours == {0, 23}
TestMinutes == {0, 2, 59}
TestSeconds == {0, 2, 59}
TestMillis == {0, 11, 345}

\* Spans of whole milliseconds.
WholeMillis ==
    {Wide(((d * 24 + h) * 60 + m) * 60 + sec, ms * 1000000) :
        d \in TestDays, h \in TestHours, m \in TestMinutes,
        sec \in TestSeconds, ms \in TestMillis}

\* Spans with microseconds and nanoseconds.
SubMillis ==
    {Wide(0, 1), Wide(0, 999), Wide(0, 1000), Wide(0, 1500), Wide(0, 2000500),
     Wide(1, 500), Wide(86400, 1000)}

SubSpans ==
    {TimeSpan_ZERO, TimeSpan_NANOSECOND, Wide(0, 2), Wide(0, 999999999),
     TimeSpan_SECOND, Wide(1, 1), TimeSpan_DAY, TimeSpan_GREGORIAN_YEAR}

SpanInit ==
    /\ tspan = [op |-> "none", a |-> TimeSpan_ZERO, b |-> TimeSpan_NANOSECOND,
                out |-> None]
    /\ text = <<>>

\* The associated constants are read.
YearLengths ==
    /\ tspan' = [op |-> "const", a |-> TimeSpan_GREGORIAN_YEAR,
                 b |-> NonZeroTimeSpan_GREGORIAN_YEAR, out |-> None]
    /\ text' = <<>>
    /\ UNCHANGED <<tickerVars, rateVars, freqVars, stampVars, clockVars, refVars>>

\* a - b for a TimeSpan a and a NonZeroTimeSpan b; out is None when it panics.
Sub(a, b) ==
    /\ tspan' = [op |-> "sub", a |-> a, b |-> b, out |-> TimeSpan_sub_nonzero(a, b)]
    /\ text' = <<>>
    /\ UNCHANGED <<tickerVars, rateVars, freqVars, stampVars, clockVars, refVars>>

\* span.to_string()
Display(span) ==
    /\ tspan' = [op |-> "to_string", a |-> span, b |-> TimeSpan_NANOSECOND,
                 out |-> None]
    /\ text' = TimeSpan_to_string(span)
    /\ UNCHANGED <<tickerVars, rateVars, freqVars, stampVars, clockVars, refVars>>

\* text.parse::<TimeSpan>() of the string just written.
Parse ==
    /\ tspan.op = "to_string"
    /\ tspan' = [tspan EXCEPT !.op = "parse", !.out = TimeSpan_from_str(text)]
    /\ UNCHANGED text
    /\ UNCHANGED <<tickerVars, rateVars, freqVars, stampVars, clockVars, refVars>>

NextSpan ==
    \/ YearLengths
    \/ \E a \in SubSpans, b \in SubSpans \ {TimeSpan_ZERO} : Sub(a, b)
    \/ \E span \in WholeMillis \cup SubMillis : Display(span)
    \/ Parse

InitSpan ==
    /\ SpanInit
    /\ ticker = Idle /\ iter = Idle /\ emitted = Idle /\ exhausted = Idle
    /\ call = Idle /\ hist = Idle
    /\ clock = Idle /\ rcall = Idle /\ rhist = Idle
    /\ fin = Idle /\ fout = Idle
    /\ build = Idle /\ stamp = Idle /\ scall = Idle
    /\ instant = Idle /\ gclock = Idle /\ gcall = Idle
    /\ monotonic = Idle /\ cell = Idle /\ threads = Idle /\ written = Idle

SpecSpan == InitSpan /\ [][NextSpan]_vars

(***************************************************************************)
(* Properties of set_rate.                                                 *)
(***************************************************************************)
\* C23: set_rate(+infinity) returns normally and leaves a ratio whose
\* denominator is not zero; a negative or NaN rate is stored as rate 0.
RateSaturates ==
    rcall.op \in {"set_rate", "set_rate_panic"} =>
        /\ rcall.rate[1] = f32_INFINITY =>
              (rcall.op = "set_rate" /\ clock.denom # 0)
        /\ f32_max_zero(rcall.rate[1]) # rcall.rate[1] =>
              (rcall.op = "set_rate" /\ clock.nom = 0 /\ clock.denom = 1)

(***************************************************************************)
(* Properties of TimeSpan.                                                 *)
(***************************************************************************)
\* n ten-thousandths of TimeSpan::DAY, n * DAY / 10_000.
DaysTenThousandths(n) ==
    LET part == (n % 10000) * TimeSpan_DAY.secs
    IN  Wide((n \div 10000) * TimeSpan_DAY.secs + part \div 10000,
             (part % 10000) * (NANOS_PER_SECOND \div 10000))

\* C24: TimeSpan::GREGORIAN_YEAR and NonZeroTimeSpan::GREGORIAN_YEAR are
\* 365.2425 days, 3_652_425 * DAY / 10_000: longer than a day, longer than
\* the solar year and shorter than the Julian year.
GregorianYear ==
    tspan.op = "const" =>
        /\ tspan.a = DaysTenThousandths(3652425)
        /\ tspan.b = DaysTenThousandths(3652425)
        /\ TimeSpan_lt(TimeSpan_DAY, tspan.a)
        /\ TimeSpan_lt(TimeSpan_SOLAR_YEAR, tspan.a)
        /\ TimeSpan_lt(tspan.a, TimeSpan_JULIAN_YEAR)

\* C29: a - b for a TimeSpan a and a NonZeroTimeSpan b is a - TimeSpan::from(b):
\* the difference of the nanosecond counts when a >= b, a panic exactly when
\* a < b.
SubNonZero ==
    tspan.op = "sub" =>
        /\ tspan.out = TimeSpan_sub(tspan.a, tspan.b)
        /\ (tspan.out = None) <=> TimeSpan_lt(tspan.a, tspan.b)

\* C22: to_string followed by parse returns the span it started from, for
\* every span of whole milliseconds.
RoundTrip ==
    (tspan.op = "parse" /\ tspan.a \in WholeMillis) =>
        tspan.out = ParseOk(tspan.a)

(***************************************************************************)
(* Properties of the global reference.                                     *)
(***************************************************************************)
\* C21: GLOBAL_REFERENCE is written once, by the first get_or_init to run,
\* and every call of reference(), elapsed() and reference_and_elapsed() in
\* every thread has got that instant as the reference.
InitialisedOnce ==
    /\ Len(written) <= 1
    /\ cell = IF written = <<>> THEN None ELSE Some(written[1])
    /\ \A t \in Threads :
          threads[t].out # None =>
              /\ written # <<>>
              /\ threads[t].out[1].reference = written[1]

InitialisedOnceWitness ==
    /\ threads["a"].out # None
    /\ threads["b"].out # None
    /\ threads["a"].now # threads["b"].now
    /\ threads["a"].fn = "reference" /\ threads["b"].fn = "elapsed"
    /\ written[1] = threads["b"].now
    /\ threads["b"].now > threads["a"].now

Reduced ==
    (fin.op # "none" /\ fout # None) =>
        LET f == fout[1]
            g == fin.cycle \div f.cycle
        IN  /\ f.cycle >= 1
            /\ f.count >= 0
            /\ Coprime(f.count, f.cycle)
            /\ g >= 1
            /\ fin.cycle = g * f.cycle
            /\ fin.count = g * f.count

ReducedWitness ==
    /\ fin.op = "from_hz"
    /\ fout # None
    /\ fout[1].count > 1
    /\ fout[1].count < fin.count
    /\ fout[1].cycle > 1

====
